---- MODULE Spec2Model ----
(***************************************************************************)
(* The control-and-telemetry gateway of Antenna_Aligner:                   *)
(*   scripts/pi_tcp_server.py      TCP command handler, job registry,      *)
(*                                 reaper, WebSocket handler, broadcaster  *)
(*   scripts/pi_websocket_server.py WebSocket handler, broadcaster with    *)
(*                                 the instrument read                     *)
(* Two concurrency domains share one process: the threads of the TCP side  *)
(* (handlers, reaper) around JOBS/JOBS_LOCK, and the tasks of the asyncio  *)
(* event loop (WebSocket handlers, broadcaster) around WS_CLIENTS.         *)
(***************************************************************************)
EXTENDS Integers, Sequences, FiniteSets, TLC

\* ------------------------------------------------------------------ bounds
\* Size of the operating system's pid space that spawned children draw from.
MaxPid == 2
\* Number of TCP connections the listener accepts.
MaxConn == 2
\* Number of WebSocket connections the gateway accepts.
MaxClients == 3

Pids == 1..MaxPid
Conns == 1..MaxConn
Clients == 1..MaxClients

\* Python's None, and the return code of a child that has finished (return
\* codes are kept as text so that None compares with them).
None == "None"
ExitCode == "0"

VARIABLES
    \* ---- threads domain (pi_tcp_server.py)
    JOBS,          \* the dict pid -> (Popen, cmdline), in insertion order
    JOBS_LOCK,     \* holder of the lock: LockFree, ByReaper or ByHandler(c)
    os,            \* the kernel's process table: pid -> free/running/zombie
    pc,            \* each TCP handler's position in handle()
    proc,          \* each TCP handler's local Popen object and cmd_list
    rpc,           \* the reaper's position in reap_jobs()
    snapshot,      \* the part of list(JOBS.items()) the reaper has yet to poll
    to_delete,     \* the reaper's to_delete list
    wire,          \* the response the latest step of the threads domain wrote
    rx,            \* the line the latest step of the threads domain read
    \* ---- event-loop domain (both files)
    WS_CLIENTS,    \* the set of live WebSocket connections
    ws,            \* each WebSocket handler's position
    link,          \* each WebSocket connection's transport state
    bpc,           \* the broadcaster's position
    vna_instrument,\* the instrument handle, or None
    cur,           \* the client of the send the broadcaster is suspended at
    it_used,       \* the set iterator's si_used: the size when it was created
    it_todo,       \* the entries the set iterator has yet to yield
    disconnected,  \* the broadcaster's local set of failed clients
    cycle,         \* the latest pass of the broadcaster's loop: whether it
                   \* found clients, and whether it called get_vna_reading
    exchange,      \* the message the latest step of a WebSocket handler
                   \* took, and what the handler sent back
    script,        \* the script the process runs
    broadcast,     \* the record the latest pass of the broadcaster built
    \* ---- both
    raised         \* a removal from a store raised KeyError

tcpVars == <<JOBS, JOBS_LOCK, os, pc, proc, rpc, snapshot, to_delete, wire, rx>>
wsVars == <<WS_CLIENTS, ws, link, bpc, vna_instrument, cur, it_used, it_todo,
            disconnected, cycle, exchange, script, broadcast>>
vars == <<JOBS, JOBS_LOCK, os, pc, proc, rpc, snapshot, to_delete, wire, rx,
          WS_CLIENTS, ws, link, bpc, vna_instrument, cur, it_used, it_todo,
          disconnected, cycle, exchange, script, broadcast, raised>>

\* ------------------------------------------------------- text of a TCP line
\* A line is a sequence of one-character strings.
Space == " "
L_PING == <<"P", "I", "N", "G">>
L_ping == <<"p", "i", "n", "g">>
L_STATUS == <<"S", "T", "A", "T", "U", "S">>
L_QUIT == <<"Q", "U", "I", "T">>
L_EXIT == <<"E", "X", "I", "T">>
L_RUN_a == <<"R", "U", "N", " ", "a">>
L_run_a == <<"r", "u", "n", " ", "a">>
L_RUN_sp == <<"R", "U", "N", " ">>
L_RUN_quote == <<"R", "U", "N", " ", "'">>
L_X == <<"X">>
L_blank == <<" ">>
L_empty == << >>

\* The lines a client sends (raw, before strip()).
Lines == {L_PING, L_ping, L_STATUS, L_QUIT, L_EXIT, L_RUN_a, L_run_a,
          L_RUN_sp, L_RUN_quote, L_X, L_blank, L_empty}

\* str.upper() on the characters the lines use.
UpperChar(ch) ==
    CASE ch = "p" -> "P" [] ch = "i" -> "I" [] ch = "n" -> "N"
      [] ch = "g" -> "G" [] ch = "r" -> "R" [] ch = "u" -> "U"
      [] ch = "a" -> "A" [] OTHER -> ch

Upper(s) == [i \in DOMAIN s |-> UpperChar(s[i])]

\* str.strip(): leading and trailing whitespace removed.
RECURSIVE LStrip(_)
LStrip(s) == IF s # << >> /\ Head(s) = Space THEN LStrip(Tail(s)) ELSE s

RECURSIVE RStrip(_)
RStrip(s) ==
    IF s # << >> /\ s[Len(s)] = Space THEN RStrip(SubSeq(s, 1, Len(s) - 1)) ELSE s

Strip(s) == LStrip(RStrip(s))

\* str.startswith(prefix)
StartsWith(s, prefix) ==
    Len(s) >= Len(prefix) /\ SubSeq(s, 1, Len(prefix)) = prefix

\* cmd[4:]
From4(s) == SubSeq(s, 5, Len(s))

\* shlex.split(args_part): ValueError on an unbalanced quote, else the tokens
\* (the lines used hold at most one token).
ShlexFails(args) == \E i \in DOMAIN args : args[i] = "'"

ShlexSplit(args) == <<args>>

\* ["python3", "scripts/znle_pyvisa.py"] + parts, joined for display.
CmdLine(parts) == <<"python3", "scripts/znle_pyvisa.py">> \o parts

\* The branch of handle() a raw line takes.
Dispatch(raw) ==
    LET line == Strip(raw)
        cmd == Strip(line)
    IN  IF line = << >> THEN "skip"
        ELSE IF Upper(cmd) = L_PING THEN "ping"
        ELSE IF Upper(cmd) \in {L_QUIT, L_EXIT} THEN "quit"
        ELSE IF Upper(cmd) = L_STATUS THEN "status"
        ELSE IF StartsWith(cmd, <<"R", "U", "N", " ">>) THEN
            (IF Strip(From4(cmd)) = << >> THEN "missing_args"
             ELSE IF ShlexFails(Strip(From4(cmd))) THEN "shlex_error"
             ELSE "run")
        ELSE "unknown"

\* Dispatch, tabulated over the lines the clients send.
Branch == [raw \in Lines |-> Dispatch(raw)]

\* "for raw in self.rfile" yields a line to the handler of connection c.
Line(c, raw) == [c |-> c, raw |-> raw]
NoLine == [c |-> 0, raw |-> << >>]

\* The handler of connection c reads some line that takes this branch.
Takes(c, branch) == \E raw \in Lines : Branch[raw] = branch /\ rx' = Line(c, raw)

\* args_part of a RUN line.
ArgsPart(raw) == Strip(From4(Strip(Strip(raw))))

\* ------------------------------------------------------------ job registry
NoProc == [pid |-> 0, cmdline |-> << >>]

JobPids(J) == {J[i].pid : i \in DOMAIN J}

JobAt(J, pid) == CHOOSE i \in DOMAIN J : J[i].pid = pid

\* JOBS[pid] = (proc, cmdline): a new key is appended, an existing key keeps
\* its place and gets the new value.
JobsSet(J, pid, cmdline) ==
    LET e == [pid |-> pid, returncode |-> None, cmdline |-> cmdline]
    IN  IF pid \in JobPids(J)
        THEN [i \in DOMAIN J |-> IF J[i].pid = pid THEN e ELSE J[i]]
        ELSE Append(J, e)

\* A removal that raises KeyError when the key is absent (del JOBS[pid]).
JobsDel(J, pid) ==
    [store |-> SelectSeq(J, LAMBDA e : e.pid # pid),
     raised |-> pid \notin JobPids(J)]

\* JOBS.pop(pid, None)
JobsPop(J, pid) ==
    [store |-> SelectSeq(J, LAMBDA e : e.pid # pid), raised |-> FALSE]

\* The lines of a STATUS listing: one (pid, cmdline) per job.
Listing(J) == [i \in DOMAIN J |-> [pid |-> J[i].pid, cmdline |-> J[i].cmdline]]

Reply(to, text, pid, jobs) == [to |-> to, text |-> text, pid |-> pid, jobs |-> jobs]
NoReply == Reply(0, "none", 0, << >>)

\* Holders of JOBS_LOCK.
LockFree == <<"free", 0>>
ByReaper == <<"reaper", 0>>
ByHandler(c) == <<"handler", c>>

\* --------------------------------------------------------- TCP: handle()
\* A write to the client's socket: it is written, or the write raises (the
\* client is gone) and the exception ends handle().
Written(c, reply, next) ==
    \/ /\ wire' = reply
       /\ pc' = [pc EXCEPT ![c] = next]
    \/ /\ wire' = NoReply
       /\ pc' = [pc EXCEPT ![c] = "closed"]

\* The listener accepts a connection and a handler thread enters handle().
Accept(c) ==
    /\ pc[c] = "idle"
    /\ pc' = [pc EXCEPT ![c] = "read"]
    /\ wire' = NoReply
    /\ UNCHANGED <<JOBS, JOBS_LOCK, os, proc, rpc, snapshot, to_delete>>
    /\ rx' = NoLine
    /\ UNCHANGED wsVars /\ UNCHANGED raised

\* for raw in self.rfile ends: the client closed the connection.
TcpEof(c) ==
    /\ pc[c] = "read"
    /\ pc' = [pc EXCEPT ![c] = "closed"]
    /\ wire' = NoReply
    /\ UNCHANGED <<JOBS, JOBS_LOCK, os, proc, rpc, snapshot, to_delete>>
    /\ rx' = NoLine
    /\ UNCHANGED wsVars /\ UNCHANGED raised

\* if not line: continue
TcpSkip(c) ==
    /\ pc[c] = "read"
    /\ Takes(c, "skip")
    /\ wire' = NoReply
    /\ UNCHANGED <<JOBS, JOBS_LOCK, os, pc, proc, rpc, snapshot, to_delete>>
    /\ UNCHANGED wsVars /\ UNCHANGED raised

\* A handler that answers PONG whatever the branch.
AnswerTextPong(branch) == "PONG"

\* The response of the branches that touch no shared state and go on reading.
AnswerText(branch) ==
    CASE branch = "ping" -> "PONG"
      [] branch = "missing_args" -> "ERROR: missing args"
      [] branch = "unknown" -> "ERROR: unknown command"

\* PING, RUN with no arguments, unknown command.
TcpAnswer(c, branch) ==
    /\ pc[c] = "read"
    /\ branch \in {"ping", "missing_args", "unknown"}
    /\ Takes(c, branch)
    /\ Written(c, Reply(c, AnswerText(branch), 0, << >>), "read")
    /\ UNCHANGED <<JOBS, JOBS_LOCK, os, proc, rpc, snapshot, to_delete>>
    /\ UNCHANGED wsVars /\ UNCHANGED raised

\* QUIT / EXIT answered BYE with "continue" in place of "break".
TcpQuitContinue(c) ==
    /\ pc[c] = "read"
    /\ Takes(c, "quit")
    /\ Written(c, Reply(c, "BYE", 0, << >>), "read")
    /\ UNCHANGED <<JOBS, JOBS_LOCK, os, proc, rpc, snapshot, to_delete>>
    /\ UNCHANGED wsVars /\ UNCHANGED raised

\* QUIT / EXIT: BYE, then break.
TcpQuit(c) ==
    /\ pc[c] = "read"
    /\ Takes(c, "quit")
    /\ Written(c, Reply(c, "BYE", 0, << >>), "closed")
    /\ UNCHANGED <<JOBS, JOBS_LOCK, os, proc, rpc, snapshot, to_delete>>
    /\ UNCHANGED wsVars /\ UNCHANGED raised

\* A handler that enters the STATUS section without waiting for the lock.
StatusLockBarging(c) ==
    /\ pc[c] = "read"
    /\ Takes(c, "status")
    /\ JOBS_LOCK' = ByHandler(c)
    /\ pc' = [pc EXCEPT ![c] = "status"]
    /\ wire' = NoReply
    /\ UNCHANGED <<JOBS, os, proc, rpc, snapshot, to_delete>>
    /\ UNCHANGED wsVars /\ UNCHANGED raised

\* STATUS: with JOBS_LOCK: the handler takes the lock.
StatusLock(c) ==
    /\ pc[c] = "read"
    /\ Takes(c, "status")
    /\ JOBS_LOCK = LockFree
    /\ JOBS_LOCK' = ByHandler(c)
    /\ pc' = [pc EXCEPT ![c] = "status"]
    /\ wire' = NoReply
    /\ UNCHANGED <<JOBS, os, proc, rpc, snapshot, to_delete>>
    /\ UNCHANGED wsVars /\ UNCHANGED raised

\* The body written under the lock: NO_JOBS, or a line per job.
StatusBody(c, J) ==
    IF J = << >> THEN Reply(c, "NO_JOBS", 0, << >>)
    ELSE Reply(c, "LIST", 0, Listing(J))

\* STATUS: the writes to the socket inside the with block, then the lock is
\* released (also when a write raises) and the stream flushed.
StatusWrite(c) ==
    /\ pc[c] = "status"
    /\ JOBS_LOCK = ByHandler(c)
    /\ Written(c, StatusBody(c, JOBS), "read")
    /\ JOBS_LOCK' = LockFree
    /\ UNCHANGED <<JOBS, os, proc, rpc, snapshot, to_delete>>
    /\ rx' = NoLine
    /\ UNCHANGED wsVars /\ UNCHANGED raised

\* RUN <args>: subprocess.Popen(cmd_list) succeeds; the kernel gives the child
\* a pid no live or unreaped process has.
RunSpawn(c, raw) ==
    /\ pc[c] = "read"
    /\ Branch[raw] = "run"
    /\ \E pid \in Pids :
        /\ os[pid] = "free"
        /\ os' = [os EXCEPT ![pid] = "running"]
        /\ proc' = [proc EXCEPT ![c] =
                      [pid |-> pid, cmdline |-> CmdLine(ShlexSplit(ArgsPart(raw)))]]
    /\ pc' = [pc EXCEPT ![c] = "run_register"]
    /\ wire' = NoReply
    /\ rx' = Line(c, raw)
    /\ UNCHANGED <<JOBS, JOBS_LOCK, rpc, snapshot, to_delete>>
    /\ UNCHANGED wsVars /\ UNCHANGED raised

\* An except block that reports the failure and has no "continue".
RunSpawnFailsNoContinue(c) ==
    /\ pc[c] = "read"
    /\ Takes(c, "run")
    /\ wire' \in {Reply(c, "ERROR: failed to start", 0, << >>), NoReply}
    /\ pc' = [pc EXCEPT ![c] = "closed"]
    /\ UNCHANGED <<JOBS, JOBS_LOCK, os, proc, rpc, snapshot, to_delete>>
    /\ UNCHANGED wsVars /\ UNCHANGED raised

\* RUN <args>: subprocess.Popen raises; the except block reports it.
RunSpawnFails(c) ==
    /\ pc[c] = "read"
    /\ Takes(c, "run")
    /\ Written(c, Reply(c, "ERROR: failed to start", 0, << >>), "read")
    /\ UNCHANGED <<JOBS, JOBS_LOCK, os, proc, rpc, snapshot, to_delete>>
    /\ UNCHANGED wsVars /\ UNCHANGED raised

\* RUN <args>: shlex.split raises ValueError outside any try: handle() is
\* left by the exception, with the client still connected and nothing
\* written to it.
RunShlexError(c) ==
    /\ pc[c] = "read"
    /\ Takes(c, "shlex_error")
    /\ pc' = [pc EXCEPT ![c] = "aborted"]
    /\ wire' = NoReply
    /\ UNCHANGED <<JOBS, JOBS_LOCK, os, proc, rpc, snapshot, to_delete>>
    /\ UNCHANGED wsVars /\ UNCHANGED raised

\* A registration that stores nothing.
RunRegisterNothing(c) ==
    /\ pc[c] = "run_register"
    /\ JOBS_LOCK = LockFree
    /\ pc' = [pc EXCEPT ![c] = "run_reply"]
    /\ wire' = NoReply
    /\ UNCHANGED <<JOBS, JOBS_LOCK, os, proc, rpc, snapshot, to_delete>>
    /\ rx' = NoLine
    /\ UNCHANGED wsVars /\ UNCHANGED raised

\* A registration that does not take JOBS_LOCK.
RunRegisterUnlocked(c) ==
    /\ pc[c] = "run_register"
    /\ JOBS' = JobsSet(JOBS, proc[c].pid, proc[c].cmdline)
    /\ pc' = [pc EXCEPT ![c] = "run_reply"]
    /\ wire' = NoReply
    /\ UNCHANGED <<JOBS_LOCK, os, proc, rpc, snapshot, to_delete>>
    /\ rx' = NoLine
    /\ UNCHANGED wsVars /\ UNCHANGED raised

\* with JOBS_LOCK: JOBS[proc.pid] = (proc, " ".join(cmd_list))
RunRegister(c) ==
    /\ pc[c] = "run_register"
    /\ JOBS_LOCK = LockFree
    /\ JOBS' = JobsSet(JOBS, proc[c].pid, proc[c].cmdline)
    /\ pc' = [pc EXCEPT ![c] = "run_reply"]
    /\ wire' = NoReply
    /\ UNCHANGED <<JOBS_LOCK, os, proc, rpc, snapshot, to_delete>>
    /\ rx' = NoLine
    /\ UNCHANGED wsVars /\ UNCHANGED raised

\* self.wfile.write(f"STARTED {proc.pid}\n"); continue
RunReply(c) ==
    /\ pc[c] = "run_reply"
    /\ Written(c, Reply(c, "STARTED", proc[c].pid, << >>), "read")
    /\ proc' = [proc EXCEPT ![c] = NoProc]
    /\ UNCHANGED <<JOBS, JOBS_LOCK, os, rpc, snapshot, to_delete>>
    /\ rx' = NoLine
    /\ UNCHANGED wsVars /\ UNCHANGED raised

\* A spawned child finishes on its own; it stays a zombie until it is polled.
ProcExit(pid) ==
    /\ os[pid] = "running"
    /\ os' = [os EXCEPT ![pid] = "zombie"]
    /\ wire' = NoReply
    /\ UNCHANGED <<JOBS, JOBS_LOCK, pc, proc, rpc, snapshot, to_delete>>
    /\ rx' = NoLine
    /\ UNCHANGED wsVars /\ UNCHANGED raised

\* ------------------------------------------------------ TCP: reap_jobs()
\* with JOBS_LOCK: to_delete = []; the for loop starts on list(JOBS.items()).
ReapLock ==
    /\ rpc = "sleep"
    /\ JOBS_LOCK = LockFree
    /\ JOBS_LOCK' = ByReaper
    /\ to_delete' = << >>
    /\ snapshot' = [i \in DOMAIN JOBS |-> JOBS[i].pid]
    /\ rpc' = "cycle"
    /\ wire' = NoReply
    /\ UNCHANGED <<JOBS, os, pc, proc>>
    /\ rx' = NoLine
    /\ UNCHANGED wsVars /\ UNCHANGED raised

\* proc.poll(): the stored return code, or waitpid(WNOHANG).
PollResult(entry) ==
    IF entry.returncode # None THEN entry.returncode
    ELSE IF os[entry.pid] = "zombie" THEN ExitCode
    ELSE None

\* A test that marks every polled job.
MarkAlways(ret) == TRUE

\* if ret is not None
MarkForDelete(ret) == ret # None

\* A poll loop that waits for the child to exit (proc.wait()).
ReapPollWaiting ==
    /\ rpc = "cycle"
    /\ snapshot # << >>
    /\ os[Head(snapshot)] # "running"
    /\ LET pid == Head(snapshot)
           i == JobAt(JOBS, pid)
           ret == PollResult(JOBS[i])
       IN  /\ JOBS' = [JOBS EXCEPT ![i].returncode = ret]
           /\ os' = IF ret # None /\ JOBS[i].returncode = None
                    THEN [os EXCEPT ![pid] = "free"] ELSE os
           /\ to_delete' = IF MarkForDelete(ret) THEN Append(to_delete, pid)
                           ELSE to_delete
    /\ snapshot' = Tail(snapshot)
    /\ wire' = NoReply
    /\ UNCHANGED <<JOBS_LOCK, pc, proc, rpc>>
    /\ rx' = NoLine
    /\ UNCHANGED wsVars /\ UNCHANGED raised

\* One iteration of the poll loop.
ReapPoll ==
    /\ rpc = "cycle"
    /\ snapshot # << >>
    /\ LET pid == Head(snapshot)
           i == JobAt(JOBS, pid)
           ret == PollResult(JOBS[i])
       IN  /\ JOBS' = [JOBS EXCEPT ![i].returncode = ret]
           /\ os' = IF ret # None /\ JOBS[i].returncode = None
                    THEN [os EXCEPT ![pid] = "free"] ELSE os
           /\ to_delete' = IF MarkForDelete(ret) THEN Append(to_delete, pid)
                           ELSE to_delete
    /\ snapshot' = Tail(snapshot)
    /\ wire' = NoReply
    /\ UNCHANGED <<JOBS_LOCK, pc, proc, rpc>>
    /\ rx' = NoLine
    /\ UNCHANGED wsVars /\ UNCHANGED raised

\* for pid in to_delete: JOBS.pop(pid, None)
ReapPop ==
    /\ rpc = "cycle"
    /\ snapshot = << >>
    /\ to_delete # << >>
    /\ LET r == JobsPop(JOBS, Head(to_delete))
       IN  /\ JOBS' = r.store
           /\ raised' = (raised \/ r.raised)
    /\ to_delete' = Tail(to_delete)
    /\ wire' = NoReply
    /\ UNCHANGED <<JOBS_LOCK, os, pc, proc, rpc, snapshot>>
    /\ rx' = NoLine
    /\ UNCHANGED wsVars

\* The with block ends; time.sleep(1.0).
ReapUnlock ==
    /\ rpc = "cycle"
    /\ snapshot = << >>
    /\ to_delete = << >>
    /\ JOBS_LOCK' = LockFree
    /\ rpc' = "sleep"
    /\ wire' = NoReply
    /\ UNCHANGED <<JOBS, os, pc, proc, snapshot, to_delete>>
    /\ rx' = NoLine
    /\ UNCHANGED wsVars /\ UNCHANGED raised

Handler(c) ==
    \/ Accept(c)
    \/ TcpEof(c)
    \/ TcpSkip(c)
    \/ \E branch \in {"ping", "missing_args", "unknown"} : TcpAnswer(c, branch)
    \/ TcpQuit(c)
    \/ StatusLock(c)
    \/ \E raw \in Lines : RunSpawn(c, raw)
    \/ RunSpawnFails(c)
    \/ RunShlexError(c)
    \/ StatusWrite(c)
    \/ RunRegister(c)
    \/ RunReply(c)

Reaper == ReapLock \/ ReapPoll \/ ReapPop \/ ReapUnlock

NextTcp ==
    \/ \E c \in Conns : Handler(c)
    \/ \E pid \in Pids : ProcExit(pid)
    \/ Reaper

\* ------------------------------------------------ event loop: client set
\* WS_CLIENTS.discard(websocket)
SetDiscard(S, x) == [store |-> S \ {x}, raised |-> FALSE]

\* WS_CLIENTS.difference_update(disconnected)
DifferenceUpdate(S, D) == [store |-> S \ D, raised |-> FALSE]

\* The set iterator of "for client in WS_CLIENTS" is live while the
\* broadcaster is suspended inside the loop body.
Iterating == bpc = "send"

\* What WS_CLIENTS.add does to a live iterator: the new entry lands in a slot
\* before or after the iterator's position, and when the add resizes the
\* table every entry is re-placed, so any entries may lie ahead of it.
AfterAdd(S) == IF Iterating THEN SUBSET S ELSE {it_todo}

\* What WS_CLIENTS.discard does to a live iterator: the slot becomes a dummy
\* that the iterator skips.
AfterDiscard(x) == IF Iterating THEN it_todo \ {x} ELSE it_todo

\* ------------------------------------------ event loop: inbound messages
\* The two scripts of the repository that serve the WebSocket channel.
Scripts == {"pi_tcp_server", "pi_websocket_server"}

\* An inbound text message: whether it is JSON at all, whether the JSON value
\* is an object, and the value of its "cmd" member ("" when it has none).
Message(valid, object, cmd) == [valid |-> valid, object |-> object, cmd |-> cmd]
Msg_PING == Message(TRUE, TRUE, "PING")
Msg_GET_RSL == Message(TRUE, TRUE, "GET_RSL")
Msg_FOO == Message(TRUE, TRUE, "FOO")
Msg_nocmd == Message(TRUE, TRUE, "")
Msg_array == Message(TRUE, FALSE, "")
Msg_garbage == Message(FALSE, FALSE, "")
Messages == {Msg_PING, Msg_GET_RSL, Msg_FOO, Msg_nocmd, Msg_array, Msg_garbage}

\* What the handler sends back: the members of the JSON object and the text
\* of its "response" or "error" member; NoAnswer when it sends nothing.
Answer(fields, text) == [fields |-> fields, text |-> text]
NoAnswer == Answer({}, "")

\* json.loads(message); data.get("cmd", "")
JsonLoads(m) ==
    IF ~m.valid THEN [raised |-> "JSONDecodeError", cmd |-> ""]
    ELSE IF ~m.object THEN [raised |-> "AttributeError", cmd |-> ""]
    ELSE [raised |-> None, cmd |-> m.cmd]

\* A handler that answers no message.
HandleMessageSilent(s, m) == NoAnswer

\* The body of "async for message in websocket" in either script.
HandleMessage(s, m) ==
    LET data == JsonLoads(m)
    IN  IF data.raised = "JSONDecodeError"
        THEN (IF s = "pi_websocket_server"
              THEN Answer({"error"}, "Invalid JSON") ELSE NoAnswer)
        ELSE IF data.raised # None THEN NoAnswer
        ELSE IF data.cmd = "PING" THEN Answer({"response"}, "PONG")
        ELSE IF data.cmd = "GET_RSL" /\ s = "pi_websocket_server"
        THEN Answer({"rsl", "timestamp"}, "")
        ELSE NoAnswer

Exchange(c, m, a) == [c |-> c, message |-> m, answer |-> a]
NoExchange == Exchange(0, Msg_garbage, NoAnswer)

\* ---------------------------------------------- event loop: the handlers
\* A handshake that also enters the connection in the job registry.
ConnectRegistered(c) ==
    /\ ws[c] = "new"
    /\ bpc \in {"sleep", "send"}
    /\ WS_CLIENTS' = WS_CLIENTS \cup {c}
    /\ ws' = [ws EXCEPT ![c] = "recv"]
    /\ link' = [link EXCEPT ![c] = "open"]
    /\ it_todo' \in AfterAdd(WS_CLIENTS \cup {c})
    /\ JOBS' = JobsSet(JOBS, 1, << >>)
    /\ UNCHANGED <<bpc, vna_instrument, cur, it_used, disconnected, cycle>>
    /\ exchange' = NoExchange /\ UNCHANGED <<script, broadcast>>
    /\ UNCHANGED <<JOBS_LOCK, os, pc, proc, rpc, snapshot, to_delete, wire, rx>>
    /\ UNCHANGED raised

\* A handshake completes and websocket_handler starts: WS_CLIENTS.add.
Connect(c) ==
    /\ ws[c] = "new"
    /\ bpc \in {"sleep", "send"}
    /\ WS_CLIENTS' = WS_CLIENTS \cup {c}
    /\ ws' = [ws EXCEPT ![c] = "recv"]
    /\ link' = [link EXCEPT ![c] = "open"]
    /\ it_todo' \in AfterAdd(WS_CLIENTS \cup {c})
    /\ UNCHANGED <<bpc, vna_instrument, cur, it_used, disconnected, cycle>>
    /\ exchange' = NoExchange /\ UNCHANGED <<script, broadcast>>
    /\ UNCHANGED tcpVars /\ UNCHANGED raised

\* The connection closes under the handler: the peer's close handshake, a
\* connection error, or the server closing it when it shuts down.
ClientDrop(c) ==
    /\ link[c] = "open"
    /\ link' = [link EXCEPT ![c] = "down"]
    /\ UNCHANGED <<WS_CLIENTS, ws, bpc, vna_instrument, cur, it_used, it_todo,
                   disconnected, cycle>>
    /\ exchange' = NoExchange /\ UNCHANGED <<script, broadcast>>
    /\ UNCHANGED tcpVars /\ UNCHANGED raised

\* A finally block that leaves the connection in the set.
FinallyKeep(c) ==
    /\ ws' = [ws EXCEPT ![c] = "done"]
    /\ UNCHANGED <<WS_CLIENTS, it_todo, raised>>

\* finally: WS_CLIENTS.discard(websocket)
Finally(c) ==
    /\ LET r == SetDiscard(WS_CLIENTS, c)
       IN  /\ WS_CLIENTS' = r.store
           /\ raised' = (raised \/ r.raised)
    /\ it_todo' = AfterDiscard(c)
    /\ ws' = [ws EXCEPT ![c] = "done"]

\* "async for message in websocket" ends on a normal close; finally.
HandlerClose(c) ==
    /\ ws[c] = "recv"
    /\ link[c] = "down"
    /\ Finally(c)
    /\ UNCHANGED <<link, bpc, vna_instrument, cur, it_used, disconnected, cycle>>
    /\ exchange' = NoExchange /\ UNCHANGED <<script, broadcast>>
    /\ UNCHANGED tcpVars

\* "async for message in websocket" raises on a connection error, which the
\* outer except clauses take; finally.
HandlerException(c) ==
    /\ ws[c] = "recv"
    /\ link[c] = "down"
    /\ Finally(c)
    /\ UNCHANGED <<link, bpc, vna_instrument, cur, it_used, disconnected, cycle>>
    /\ exchange' = NoExchange /\ UNCHANGED <<script, broadcast>>
    /\ UNCHANGED tcpVars

\* ------------------------------------------- event loop: the broadcaster
\* What a pass of the loop found and did.
Pass(clients, read) == [clients |-> clients, read |-> read]

\* get_vna_reading(): with no instrument the value is generated; with an
\* instrument it is the value read, or, when the read raises, a generated
\* value returned by the except block.
GetVnaReading(inst) ==
    IF inst = None THEN {"generated"} ELSE {"instrument", "generated"}

\* Where the rsl of a broadcast comes from: get_vna_reading() in
\* pi_websocket_server.py, a generated value in pi_tcp_server.py.
Reading(s, inst) ==
    IF s = "pi_websocket_server" THEN GetVnaReading(inst) ELSE {"generated"}

\* The "source" member of the record: "vna" if vna_instrument else
\* "simulated" in pi_websocket_server.py; pi_tcp_server.py builds the record
\* without the member.
Source(s, inst) ==
    IF s = "pi_websocket_server"
    THEN (IF inst # None THEN "vna" ELSE "simulated")
    ELSE "absent"

\* data = {"rsl": ..., "timestamp": ..., "source": ...}: where the rsl came
\* from, and the source member.
Data(value, source) == [rsl |-> value, source |-> source]
NoData == Data("none", "none")

\* vna_instrument = connect_vna() (pi_websocket_server.py only), then the
\* first pass of the loop, which finds no client (no handler has run yet)
\* and goes to sleep.
BcastStart ==
    /\ bpc = "start"
    /\ vna_instrument' \in
         (IF script = "pi_websocket_server" THEN {None, "inst"} ELSE {None})
    /\ bpc' = "sleep"
    /\ cycle' = Pass(FALSE, FALSE)
    /\ UNCHANGED <<WS_CLIENTS, ws, link, cur, it_used, it_todo, disconnected>>
    /\ exchange' = NoExchange /\ UNCHANGED <<script, broadcast>>
    /\ UNCHANGED tcpVars /\ UNCHANGED raised

\* next() of the set iterator, run with no await before it: RuntimeError when
\* the set's size is not the size the iterator was created with (the
\* exception leaves broadcast_signal_data and ends the task); past the last
\* entry the loop ends, difference_update is applied and the task sleeps;
\* otherwise the next client's send begins.
IterNext(clients, used, todo, disc) ==
    IF Cardinality(clients) # used
    THEN /\ bpc' = "crashed"
         /\ cur' = 0
         /\ it_used' = 0
         /\ it_todo' = {}
         /\ WS_CLIENTS' = clients
         /\ raised' = raised
    ELSE IF todo = {}
    THEN /\ bpc' = "sleep"
         /\ cur' = 0
         /\ it_used' = 0
         /\ it_todo' = {}
         /\ LET r == DifferenceUpdate(clients, disc)
            IN  /\ WS_CLIENTS' = r.store
                /\ raised' = (raised \/ r.raised)
    ELSE /\ bpc' = "send"
         /\ \E nxt \in todo :
              /\ cur' = nxt
              /\ it_todo' = todo \ {nxt}
         /\ it_used' = used
         /\ WS_CLIENTS' = clients
         /\ raised' = raised

\* A pass that calls get_vna_reading before it looks at the client set.
SampleAlways(clients) == TRUE

\* if WS_CLIENTS: rsl_value = get_vna_reading()
Sample(clients) == clients # {}

\* asyncio.sleep(0.5) returns and the loop makes a pass: with no client it
\* sleeps again; otherwise it takes one reading and starts the sweep.
BcastCycle ==
    /\ bpc = "sleep"
    /\ cycle' = Pass(WS_CLIENTS # {}, Sample(WS_CLIENTS))
    /\ IF WS_CLIENTS = {}
       THEN UNCHANGED <<WS_CLIENTS, bpc, cur, it_used, it_todo, disconnected, raised>>
       ELSE /\ disconnected' = {}
            /\ IterNext(WS_CLIENTS, Cardinality(WS_CLIENTS), WS_CLIENTS, {})
    /\ broadcast' \in (IF WS_CLIENTS = {} THEN {NoData}
                  ELSE {Data(v, Source(script, vna_instrument)) :
                          v \in Reading(script, vna_instrument)})
    /\ UNCHANGED <<ws, link, vna_instrument>>
    /\ exchange' = NoExchange /\ UNCHANGED script
    /\ UNCHANGED tcpVars

\* "await client.send(...)" returns, or raises because the connection is no
\* longer open (the client is then added to disconnected); the loop goes on.
BcastSendDone ==
    /\ bpc = "send"
    /\ LET disc == IF link[cur] = "open" THEN disconnected
                   ELSE disconnected \cup {cur}
       IN  /\ disconnected' = disc
           /\ IterNext(WS_CLIENTS, it_used, it_todo, disc)
    /\ UNCHANGED <<ws, link, vna_instrument, cycle>>
    /\ exchange' = NoExchange /\ UNCHANGED <<script, broadcast>>
    /\ UNCHANGED tcpVars

\* A message arrives on an open connection; the handler decodes it, sends its
\* answer (if any) on the same connection and waits for the next message.
WsMessage(c, m) ==
    /\ ws[c] = "recv"
    /\ link[c] = "open"
    /\ exchange' = Exchange(c, m, HandleMessage(script, m))
    /\ UNCHANGED <<WS_CLIENTS, ws, link, bpc, vna_instrument, cur, it_used,
                   it_todo, disconnected, cycle, script, broadcast>>
    /\ UNCHANGED tcpVars /\ UNCHANGED raised

WsHandler(c) ==
    \/ Connect(c)
    \/ ClientDrop(c)
    \/ HandlerClose(c)
    \/ HandlerException(c)

Broadcaster == BcastStart \/ BcastCycle \/ BcastSendDone

NextWs ==
    \/ \E c \in Clients : WsHandler(c)
    \/ Broadcaster

InitTcp ==
    /\ JOBS = << >>
    /\ JOBS_LOCK = LockFree
    /\ os = [pid \in Pids |-> "free"]
    /\ pc = [c \in Conns |-> "idle"]
    /\ proc = [c \in Conns |-> NoProc]
    /\ rpc = "sleep"
    /\ snapshot = << >>
    /\ to_delete = << >>
    /\ wire = NoReply
    /\ rx = NoLine

InitWs ==
    /\ WS_CLIENTS = {}
    /\ ws = [c \in Clients |-> "new"]
    /\ link = [c \in Clients |-> "none"]
    /\ bpc = "start"
    /\ vna_instrument = None
    /\ cur = 0
    /\ it_used = 0
    /\ it_todo = {}
    /\ disconnected = {}
    /\ cycle = Pass(FALSE, FALSE)
    /\ broadcast = NoData
    /\ exchange = NoExchange

\* No ThreadingTCPServer serves the handler and no reaper thread runs.
InitTcpOff ==
    /\ JOBS = << >>
    /\ JOBS_LOCK = LockFree
    /\ os = [pid \in Pids |-> "free"]
    /\ pc = [c \in Conns |-> "unserved"]
    /\ proc = [c \in Conns |-> NoProc]
    /\ rpc = "unstarted"
    /\ snapshot = << >>
    /\ to_delete = << >>
    /\ wire = NoReply
    /\ rx = NoLine

\* No event loop runs.
InitWsOff ==
    /\ WS_CLIENTS = {}
    /\ ws = [c \in Clients |-> "new"]
    /\ link = [c \in Clients |-> "none"]
    /\ bpc = "unstarted"
    /\ vna_instrument = None
    /\ cur = 0
    /\ it_used = 0
    /\ it_todo = {}
    /\ disconnected = {}
    /\ cycle = Pass(FALSE, FALSE)
    /\ broadcast = NoData
    /\ exchange = NoExchange

\* pi_tcp_server.py with its handler served and its reaper and event loop
\* running.
Init == InitTcp /\ InitWs /\ raised = FALSE /\ script = "pi_tcp_server"

\* The event loop of either script, on its own.
InitLoop == InitTcpOff /\ InitWs /\ raised = FALSE /\ script \in Scripts

\* The threads of pi_tcp_server.py, on their own.
InitThreads == InitTcp /\ InitWsOff /\ raised = FALSE /\ script = "pi_tcp_server"

Next == NextTcp \/ NextWs

Spec == Init /\ [][Next]_vars

\* The threads domain alone (the event loop shares no variable with it).
SpecTcp == Init /\ [][NextTcp]_vars

\* The event-loop domain alone, its clients sending nothing.
SpecWs == InitLoop /\ [][NextWs]_vars

\* The event-loop domain with inbound messages.
NextLoop ==
    \/ NextWs
    \/ \E c \in Clients, m \in Messages : WsMessage(c, m)

SpecLoop == InitLoop /\ [][NextLoop]_vars

\* Both transports: the two domains share no variable, so each is run from
\* its own initial state.
NextGateway == NextTcp \/ NextLoop

SpecGateway == (InitThreads \/ InitLoop) /\ [][NextGateway]_vars

\* ----------------------------------------------- pi_tcp_server.py: main()
\* janitor = threading.Thread(target=reap_jobs, daemon=True); janitor.start()
MainJanitor ==
    /\ rpc = "unstarted"
    /\ rpc' = "sleep"
    /\ wire' = NoReply /\ rx' = NoLine
    /\ UNCHANGED <<JOBS, JOBS_LOCK, os, pc, proc, snapshot, to_delete>>
    /\ UNCHANGED wsVars /\ UNCHANGED raised

\* if WS_AVAILABLE: run_websocket_server(host, port), which runs the event
\* loop until it ends.
MainRunWs ==
    /\ rpc # "unstarted"
    /\ bpc = "unstarted"
    /\ bpc' = "start"
    /\ exchange' = NoExchange
    /\ UNCHANGED <<WS_CLIENTS, ws, link, vna_instrument, cur, it_used, it_todo,
                   disconnected, cycle, script, broadcast>>
    /\ UNCHANGED tcpVars /\ UNCHANGED raised

\* else: print(...); main() returns and the process ends, the daemon thread
\* of the reaper with it.
MainNoWs ==
    /\ rpc # "unstarted"
    /\ bpc = "unstarted"
    /\ bpc' = "unavailable"
    /\ rpc' = "exited"
    /\ JOBS_LOCK' = LockFree
    /\ snapshot' = << >>
    /\ to_delete' = << >>
    /\ wire' = NoReply /\ rx' = NoLine
    /\ exchange' = NoExchange
    /\ UNCHANGED <<JOBS, os, pc, proc>>
    /\ UNCHANGED <<WS_CLIENTS, ws, link, vna_instrument, cur, it_used, it_todo,
                   disconnected, cycle, script, broadcast>>
    /\ UNCHANGED raised

\* A TCP client tries to open a command connection: main() has created no
\* ThreadingTCPServer, so no listener hands it to a ThreadedTCPHandler.
TcpRejected(c) ==
    /\ pc[c] = "unserved"
    /\ pc' = [pc EXCEPT ![c] = "refused"]
    /\ wire' = NoReply /\ rx' = NoLine
    /\ UNCHANGED <<JOBS, JOBS_LOCK, os, proc, rpc, snapshot, to_delete>>
    /\ UNCHANGED wsVars /\ UNCHANGED raised

\* The process from the entry of main(): no listener, no thread, no loop.
InitMain ==
    InitTcpOff /\ InitWsOff /\ raised = FALSE /\ script = "pi_tcp_server"

\* main() and what it starts. No handler thread is among it, and with no job
\* ever registered the reaper's cycle is: lock, empty snapshot, unlock.
NextMain ==
    \/ MainJanitor
    \/ MainRunWs
    \/ MainNoWs
    \/ \E c \in Conns : TcpRejected(c)
    \/ ReapLock
    \/ ReapUnlock
    \/ NextLoop

SpecMain == InitMain /\ [][NextMain]_vars

\* The registries of at most MaxPid jobs, in every insertion order.
Registries ==
    {J \in UNION {[1..n -> [pid : Pids, returncode : {None},
                            cmdline : {CmdLine(L_RUN_a)}]] : n \in 0..MaxPid} :
        \A i, j \in DOMAIN J : i # j => J[i].pid # J[j].pid}

\* The non-empty lists of distinct pids a reaper cycle may hold in to_delete.
PidLists ==
    {s \in UNION {[1..n -> Pids] : n \in 1..MaxPid} :
        \A i, j \in DOMAIN s : i # j => s[i] # s[j]}

\* The three removal statements applied to stores and keys drawn from bounded
\* sets, present and absent keys alike: the reaper is inside its with block
\* about to pop the pids of to_delete, every handler is about to reach its
\* finally block, and the broadcaster is at the last send of a sweep with
\* any set of connections marked as disconnected.
InitRemoval ==
    /\ JOBS \in Registries
    /\ to_delete \in PidLists
    /\ JOBS_LOCK = ByReaper
    /\ rpc = "cycle"
    /\ snapshot = << >>
    /\ os = [pid \in Pids |-> IF pid \in JobPids(JOBS) THEN "running" ELSE "free"]
    /\ pc = [c \in Conns |-> "idle"]
    /\ proc = [c \in Conns |-> NoProc]
    /\ wire = NoReply
    /\ rx = NoLine
    /\ WS_CLIENTS \in SUBSET Clients
    /\ disconnected \in SUBSET Clients
    /\ ws = [c \in Clients |-> "recv"]
    /\ link = [c \in Clients |-> "down"]
    /\ bpc = "send"
    /\ cur \in Clients
    /\ it_used = Cardinality(WS_CLIENTS)
    /\ it_todo = {}
    /\ vna_instrument = None
    /\ cycle = Pass(TRUE, TRUE)
    /\ broadcast = Data("generated", "absent")
    /\ exchange = NoExchange
    /\ script = "pi_tcp_server"
    /\ raised = FALSE

NextRemoval ==
    \/ ReapPop
    \/ \E c \in Clients : HandlerClose(c)
    \/ \E c \in Clients : HandlerException(c)
    \/ BcastSendDone

SpecRemoval == InitRemoval /\ [][NextRemoval]_vars

\* The registration statement applied to registries and pids drawn from
\* bounded sets, pids present in the registry and absent alike: every handler
\* holds a spawned child and is about to enter "with JOBS_LOCK" of line 162.
InitRegister ==
    /\ JOBS \in Registries
    /\ JOBS_LOCK = LockFree
    /\ proc \in [Conns -> [pid : Pids,
                           cmdline : {CmdLine(ShlexSplit(ArgsPart(L_RUN_a)))}]]
    /\ os = [pid \in Pids |->
               IF pid \in JobPids(JOBS) \cup {proc[c].pid : c \in Conns}
               THEN "running" ELSE "free"]
    /\ pc = [c \in Conns |-> "run_register"]
    /\ rpc = "sleep"
    /\ snapshot = << >>
    /\ to_delete = << >>
    /\ wire = NoReply
    /\ rx = NoLine
    /\ InitWsOff
    /\ script = "pi_tcp_server"
    /\ raised = FALSE

NextRegister ==
    \/ \E c \in Conns : RunRegister(c)
    \/ \E c \in Conns : RunReply(c)

SpecRegister == InitRegister /\ [][NextRegister]_vars

\* The reaper and the lock hand-over are scheduled fairly: the reaper thread
\* runs whenever it can, it gets JOBS_LOCK if the lock keeps coming free, and
\* so does a handler that waits for the lock to register its job. No fairness
\* is stated for a handler's reads and writes, which wait for its client.
FairSpecTcp ==
    /\ SpecTcp
    /\ SF_vars(ReapLock)
    /\ WF_vars(ReapPoll)
    /\ WF_vars(ReapPop)
    /\ WF_vars(ReapUnlock)
    /\ \A c \in Conns : SF_vars(RunRegister(c))

\* ------------------------------------------------------------------ claims
\* The child with this pid has been spawned by a RUN that has not yet stored it.
Awaiting(pid) == \E c \in Conns : pc[c] = "run_register" /\ proc[c].pid = pid

\* The registry holds an entry for this pid whose process has not been polled
\* as exited.
Held(J, pid) == \E i \in DOMAIN J : J[i].pid = pid /\ J[i].returncode = None

\* The pids a STATUS listing names.
Listed(reply) == {reply.jobs[i].pid : i \in DOMAIN reply.jobs}

\* C1: a job that RUN has registered stays in the registry for as long as its
\* process runs (every running child is either still on its way into the
\* registry or in it, whatever its connection does), and a STATUS reply names
\* every registered job whose process is running when the reply is produced.
C1_RunningJobStaysListed ==
    /\ \A pid \in Pids : os[pid] = "running" => Awaiting(pid) \/ Held(JOBS, pid)
    /\ wire.text \in {"LIST", "NO_JOBS"} =>
         \A pid \in Pids :
            os[pid] = "running" /\ ~Awaiting(pid) => pid \in Listed(wire)

\* A STATUS reply names a job whose process is running, and it is produced
\* for one connection while every other connection has already closed.
C1_Witness ==
    /\ wire.text = "LIST"
    /\ \E pid \in Listed(wire) : os[pid] = "running"
    /\ \A c \in Conns : c # wire.to => pc[c] = "closed"

\* C2: with the reaper scheduled fairly, a registered job whose process has
\* exited is eventually removed from the registry.
C2_ExitedJobEventuallyRemoved ==
    \A pid \in Pids :
        (pid \in JobPids(JOBS) /\ os[pid] = "zombie") ~> (pid \notin JobPids(JOBS))

\* A STATUS handler holds JOBS_LOCK, about to write to its client, while a
\* registered job's process has exited and the reaper waits for the lock.
C2_Witness ==
    \E c \in Conns, pid \in Pids :
        /\ pc[c] = "status"
        /\ JOBS_LOCK = ByHandler(c)
        /\ rpc = "sleep"
        /\ pid \in JobPids(JOBS)
        /\ os[pid] = "zombie"

\* C3: a RUN whose spawn succeeded stores the job under the child's pid before
\* it writes STARTED, the pid in STARTED is that pid, and the reply is not held
\* back until the child finishes: the handler goes back to reading.
C3_RegisteredBeforeStarted ==
    [][\A c \in Conns :
          /\ (pc[c] = "run_register" /\ pc'[c] = "run_reply")
                => Held(JOBS', proc[c].pid)
          /\ (wire'.text = "STARTED" /\ wire'.to = c)
                => /\ pc[c] = "run_reply"
                   /\ wire'.pid = proc[c].pid
                   /\ pc'[c] = "read"
          /\ pc[c] = "run_reply" => ENABLED RunReply(c)
      ]_vars

\* The only connection ever accepted has been answered STARTED and then PONG,
\* and the job it started is still running and registered.
C3_Witness ==
    /\ wire.text = "PONG"
    /\ \A c \in Conns : c # wire.to => pc[c] = "idle"
    /\ \E pid \in Pids : os[pid] = "running" /\ Held(JOBS, pid)

\* C4: when Popen raises, the connection is answered "ERROR: failed to
\* start", the registry and the process table are as before, and the handler
\* goes back to reading the next line.
C4_SpawnFailureLeavesRegistry ==
    [][\A c \in Conns :
          (wire'.text = "ERROR: failed to start" /\ wire'.to = c)
             => /\ JOBS' = JOBS
                /\ os' = os
                /\ pc[c] = "read"
                /\ pc'[c] = "read"
      ]_vars

\* A failed spawn has been reported on a connection that is reading again,
\* with a job of an earlier RUN in the registry.
C4_Witness ==
    /\ wire.text = "ERROR: failed to start"
    /\ pc[wire.to] = "read"
    /\ JOBS # << >>

\* C5: the Client Set is never modified while a broadcast sweep iterates over
\* it: the only change of the set that starts inside a sweep is the
\* broadcaster's own removal, applied in the step that ends the sweep.
C5_NoMutationDuringSweep ==
    [][(bpc = "send" /\ WS_CLIENTS' # WS_CLIENTS) => bpc' = "sleep"]_vars

\* C6: the broadcaster task never terminates, whatever the clients do.
C6_BroadcasterNeverEnds == bpc # "crashed"

\* C7: a sweep in which a send fails still visits the clients after the failed
\* one, and it ends with the failed clients, and only them, removed from the
\* Client Set and the broadcaster sleeping until its next cycle.
C7_FailedClientPruned ==
    [][/\ (bpc = "send" /\ bpc' # "send" /\ (disconnected' # {} \/ link[cur] # "open"))
            => /\ bpc' = "sleep"
               /\ disconnected' \cap WS_CLIENTS' = {}
               /\ WS_CLIENTS \ WS_CLIENTS' \subseteq disconnected'
       /\ (bpc = "send" /\ link[cur] # "open" /\ it_todo # {})
            => bpc' = "send"
      ]_vars

\* C8: a connection enters the Client Set in the step that starts its handler
\* and in no other step, it is in the set only while its handler runs, it is
\* absent once the handler has ended (by close or by exception), and a handler
\* never starts again for the same connection.
C8_SetFollowsHandler ==
    [][\A c \in Clients :
          /\ (c \in WS_CLIENTS' /\ c \notin WS_CLIENTS)
                => ws[c] = "new" /\ ws'[c] = "recv"
          /\ (ws[c] = "new" /\ ws'[c] # "new") => c \in WS_CLIENTS'
          /\ c \in WS_CLIENTS' => ws'[c] = "recv"
          /\ ws'[c] = "done" => c \notin WS_CLIENTS'
          /\ ws[c] # "new" => ws'[c] # "new"
      ]_vars

\* One handler has ended and its connection is out of the set, while another
\* connection with a running handler is in it.
C8_Witness ==
    \E c, d \in Clients :
        /\ ws[c] = "done"
        /\ c \notin WS_CLIENTS
        /\ ws[d] = "recv"
        /\ d \in WS_CLIENTS

\* C10: a broadcaster cycle that finds the Client Set empty takes no
\* measurement; get_vna_reading is called only in a cycle that found a client.
C10_NoReadWithoutClients == cycle.read => cycle.clients

\* The latest cycle found the set empty and read nothing, after an earlier
\* cycle had swept the set and pruned a connection whose handler still runs.
C10_Witness ==
    /\ cycle = Pass(FALSE, FALSE)
    /\ bpc = "sleep"
    /\ WS_CLIENTS = {}
    /\ \E c \in Clients : ws[c] = "recv"

\* C9: removing a key that is absent leaves the store unchanged and raises
\* nothing, in both stores: the reaper's pop of a pid that is not in the
\* registry, a handler's final discard of a connection that is not in the
\* Client Set, and the broadcaster's prune of connections that are not in it.
C9_RemovalIdempotent ==
    [][/\ (to_delete # << >> /\ to_delete' = Tail(to_delete)
             /\ Head(to_delete) \notin JobPids(JOBS))
            => JOBS' = JOBS /\ raised' = FALSE
       /\ \A c \in Clients :
            (ws[c] = "recv" /\ ws'[c] = "done" /\ c \notin WS_CLIENTS)
               => WS_CLIENTS' = WS_CLIENTS /\ raised' = FALSE
       /\ (bpc = "send" /\ bpc' = "sleep" /\ disconnected' # {}
             /\ disconnected' \cap WS_CLIENTS = {})
            => WS_CLIENTS' = WS_CLIENTS /\ raised' = FALSE
      ]_vars

\* Removals of absent keys have been applied and nothing else has: the reaper
\* has popped every pid of its list and the registry still holds every job it
\* held, and a handler has ended while the set still has the size the sweep
\* found.
C9_Witness ==
    /\ to_delete = << >>
    /\ JOBS # << >>
    /\ \A pid \in Pids : os[pid] = "running" <=> pid \in JobPids(JOBS)
    /\ \E c \in Clients : ws[c] = "done"
    /\ bpc = "send"
    /\ WS_CLIENTS # {}
    /\ it_used = Cardinality(WS_CLIENTS)
    /\ raised = FALSE

\* The step read this line on connection c.
Reads(c, line) == rx'.c = c /\ Strip(rx'.raw) = line

\* The step wrote this text to connection c, which goes on reading, or the
\* write failed because the client is gone.
Answered(c, text) ==
    \/ wire' = Reply(c, text, 0, << >>) /\ pc'[c] = "read"
    \/ wire' = NoReply /\ pc'[c] = "closed"

\* C11: PING has the same outcome on both transports: the TCP line PING is
\* answered PONG and the WebSocket message with cmd PING is answered
\* {"response": "PONG"} on the connection that sent it, the Job Registry and
\* the Client Set are as before, and the connection stays open.
C11_PingParity ==
    [][/\ \A c \in Conns :
            Reads(c, L_PING)
               => /\ Answered(c, "PONG")
                  /\ JOBS' = JOBS /\ os' = os /\ JOBS_LOCK' = JOBS_LOCK
                  /\ WS_CLIENTS' = WS_CLIENTS
       /\ \A c \in Clients :
            (exchange'.c = c /\ exchange'.message = Msg_PING)
               => /\ exchange'.answer = Answer({"response"}, "PONG")
                  /\ JOBS' = JOBS /\ WS_CLIENTS' = WS_CLIENTS
                  /\ ws'[c] = "recv" /\ link'[c] = "open"
      ]_vars

\* A PING has just been answered on one of the transports: PONG on a TCP
\* connection that reads on while a job is registered, or {"response": "PONG"}
\* on a WebSocket connection that is in the Client Set with another one.
C11_Witness ==
    \/ /\ wire.text = "PONG"
       /\ Strip(rx.raw) = L_PING
       /\ pc[wire.to] = "read"
       /\ JOBS # << >>
    \/ /\ exchange.message = Msg_PING
       /\ exchange.answer = Answer({"response"}, "PONG")
       /\ exchange.c \in WS_CLIENTS
       /\ Cardinality(WS_CLIENTS) > 1

\* A non-empty line that is none of the commands, in any letter case.
NotACommand(line) ==
    /\ line # << >>
    /\ Upper(line) \notin {L_PING, L_STATUS, L_QUIT, L_EXIT}
    /\ ~StartsWith(Upper(line), <<"R", "U", "N">>)

\* C12: a non-empty line that is not a command is answered "ERROR: unknown
\* command" on the connection it came from, the Job Registry, the process
\* table and the Client Set are as before, and the connection reads on.
C12_UnknownCommand ==
    [][\A c \in Conns :
          (rx'.c = c /\ NotACommand(Strip(rx'.raw)))
             => /\ Answered(c, "ERROR: unknown command")
                /\ JOBS' = JOBS /\ os' = os /\ JOBS_LOCK' = JOBS_LOCK
                /\ WS_CLIENTS' = WS_CLIENTS
      ]_vars

\* An unknown line has been answered on a connection that reads on, with a
\* running job in the registry.
C12_Witness ==
    /\ wire.text = "ERROR: unknown command"
    /\ NotACommand(Strip(rx.raw))
    /\ pc[wire.to] = "read"
    /\ \E pid \in Pids : os[pid] = "running" /\ Held(JOBS, pid)

\* C13: QUIT or EXIT is answered BYE and ends the connection's command loop:
\* the step leaves the registry and the processes as they are, and once the
\* loop has ended no line is read and nothing is written on that connection.
C13_QuitEndsLoop ==
    [][\A c \in Conns :
          /\ (Reads(c, L_QUIT) \/ Reads(c, L_EXIT))
                => /\ wire' \in {Reply(c, "BYE", 0, << >>), NoReply}
                   /\ pc'[c] = "closed"
                   /\ JOBS' = JOBS /\ os' = os /\ JOBS_LOCK' = JOBS_LOCK
          /\ (wire'.text = "BYE" /\ wire'.to = c)
                => (Reads(c, L_QUIT) \/ Reads(c, L_EXIT))
          /\ pc[c] = "closed"
                => pc'[c] = "closed" /\ rx'.c # c /\ wire'.to # c
      ]_vars

\* The only connection ever accepted has been answered BYE and is closed,
\* and the job it started is still running and registered.
C13_Witness ==
    /\ wire.text = "BYE"
    /\ pc[wire.to] = "closed"
    /\ \A c \in Conns : c # wire.to => pc[c] = "idle"
    /\ \E pid \in Pids : os[pid] = "running" /\ Held(JOBS, pid)

\* C14: a STATUS reply is NO_JOBS exactly when the registry is empty and is
\* otherwise one PID/CMD line per registered job, in the registry's order; and
\* the registry does not change from the moment the handler enters its with
\* block until the reply is written, so the reply is the registry at one
\* instant.
C14_StatusIsSnapshot ==
    /\ [](wire.text \in {"LIST", "NO_JOBS"}
            => /\ wire.text = "NO_JOBS" <=> JOBS = << >>
               /\ wire.jobs = Listing(JOBS)
               /\ Len(wire.jobs) = Cardinality(JobPids(JOBS)))
    /\ [][\A c \in Conns :
             /\ pc[c] = "status" => JOBS' = JOBS
             /\ (pc[c] = "status" /\ pc'[c] = "read")
                   => wire'.to = c /\ wire'.text \in {"LIST", "NO_JOBS"}
         ]_vars

\* A STATUS reply lists the one registered job, which is running, while
\* another connection has spawned a child and waits for the lock to store it.
C14_Witness ==
    /\ wire.text = "LIST"
    /\ Len(wire.jobs) = 1
    /\ os[wire.jobs[1].pid] = "running"
    /\ \E c \in Conns : c # wire.to /\ pc[c] = "run_register"

\* C15: a RUN line with nothing after the command word but whitespace is
\* answered "ERROR: missing args", and it spawns no process and adds no job.
C15_RunMissingArgs ==
    [][\A c \in Conns :
          Reads(c, <<"R", "U", "N">>)
             => /\ Answered(c, "ERROR: missing args")
                /\ JOBS' = JOBS /\ os' = os
      ]_vars

\* C16: a RUN line whose arguments cannot be tokenized is answered with an
\* error, spawns no process, leaves the registry as it is, and the connection
\* reads on.
C16_RunBadQuoting ==
    [][\A c \in Conns :
          (rx'.c = c /\ StartsWith(Strip(rx'.raw), L_RUN_sp)
                     /\ ShlexFails(ArgsPart(rx'.raw)))
             => /\ wire'.to = c
                /\ wire'.text \notin {"PONG", "BYE", "STARTED", "LIST", "NO_JOBS"}
                /\ pc'[c] = "read"
                /\ JOBS' = JOBS /\ os' = os
      ]_vars

\* C17: a message that is not valid JSON is answered {"error": "Invalid
\* JSON"} on the connection that sent it, the Client Set is as before, and
\* the handler stays in its receive loop.
C17_InvalidJsonAnswered ==
    [][\A c \in Clients :
          (exchange'.c = c /\ ~exchange'.message.valid)
             => /\ exchange'.answer = Answer({"error"}, "Invalid JSON")
                /\ WS_CLIENTS' = WS_CLIENTS
                /\ ws'[c] = "recv"
      ]_vars

\* C18: a request with cmd GET_RSL is answered on the requesting connection
\* with one message whose members are rsl and timestamp.
C18_GetRslAnswered ==
    [][\A c \in Clients :
          (exchange'.c = c /\ exchange'.message = Msg_GET_RSL)
             => exchange'.answer = Answer({"rsl", "timestamp"}, "")
      ]_vars

\* C19: every request that is a JSON object gets an answer carrying response,
\* rsl and timestamp, or error, and one whose cmd is missing or is not a known
\* command gets an error answer and changes no state.
C19_EveryRequestAnswered ==
    [][\A c \in Clients :
          (exchange'.c = c /\ exchange'.message.valid /\ exchange'.message.object)
             => /\ exchange'.answer.fields \in
                     {{"response"}, {"rsl", "timestamp"}, {"error"}}
                /\ exchange'.message.cmd \notin {"PING", "GET_RSL"}
                     => /\ exchange'.answer.fields = {"error"}
                        /\ WS_CLIENTS' = WS_CLIENTS
                        /\ JOBS' = JOBS
      ]_vars

\* C20: once main() has started the event loop, the reaper thread runs and
\* the TCP command listener serves every client that connects, so that the
\* client reaches the command interpreter.
C20_ThreeActivities ==
    bpc \notin {"unstarted", "unavailable"}
       => /\ rpc \in {"sleep", "cycle"}
          /\ \A c \in Conns : pc[c] \notin {"unserved", "refused"}

\* The reaper and the event loop run, a WebSocket client is served, and a TCP
\* client has been turned away.
C20_Witness ==
    /\ rpc \in {"sleep", "cycle"}
    /\ bpc \in {"sleep", "send"}
    /\ WS_CLIENTS # {}
    /\ \E c \in Conns : pc[c] = "refused"

\* ------------------------------------------------------------------ C21
\* The threads inside a section guarded by JOBS_LOCK: a handler writing its
\* STATUS listing, the reaper in its cycle.
InSection ==
    {ByHandler(c) : c \in {d \in Conns : pc[d] = "status"}}
       \cup (IF rpc = "cycle" THEN {ByReaper} ELSE {})

\* C21: every read and every write of the Job Registry (the STATUS listing,
\* the registration of RUN, the reaper's snapshot, poll and removal) happens
\* under the one registry lock, and at most one thread is inside a registry
\* section at a time: the thread inside a section is the lock's holder, the
\* registry changes only in the holder's step or in a registration made while
\* nobody else holds the lock, and a listing is written by the holder.
C21_RegistryUnderOneLock ==
    /\ [](/\ Cardinality(InSection) <= 1
          /\ InSection = (IF JOBS_LOCK = LockFree THEN {} ELSE {JOBS_LOCK}))
    /\ [][/\ JOBS' # JOBS
             => \/ JOBS_LOCK = ByReaper /\ JOBS_LOCK' = ByReaper
                \/ /\ JOBS_LOCK = LockFree /\ JOBS_LOCK' = LockFree
                   /\ \E c \in Conns : /\ pc[c] = "run_register"
                                       /\ pc'[c] = "run_reply"
          /\ snapshot' # snapshot => JOBS_LOCK' = ByReaper
          /\ wire'.text \in {"NO_JOBS", "LIST"}
               => JOBS_LOCK = ByHandler(wire'.to)
       ]_vars

\* The reaper is inside its cycle with a job to poll while a connection
\* that has spawned a child waits for the lock to register it.
C21_Witness ==
    /\ JOBS_LOCK = ByReaper
    /\ snapshot # << >>
    /\ \E c \in Conns : pc[c] = "run_register"

\* ------------------------------------------------------------------ C22
\* C22: the two stores are kept apart. A step of a TCP handler or of the
\* reaper (a step that changes the state of the command side) leaves the
\* Client Set, the broadcaster's iteration over it and the connections'
\* handlers as they were; a step of a WebSocket handler or of the broadcaster
\* (a step that changes the state of the event loop) leaves the Job Registry,
\* its lock, the reaper's lists and the children as they were.
C22_StoresKeptApart ==
    [][/\ tcpVars' # tcpVars
            => UNCHANGED <<WS_CLIENTS, it_todo, it_used, disconnected, ws, link>>
       /\ wsVars' # wsVars
            => UNCHANGED <<JOBS, JOBS_LOCK, snapshot, to_delete, os, proc>>
      ]_vars

\* The broadcaster is in a sweep over a non-empty Client Set and a handler
\* has just answered a request: steps of both kinds on the event loop.
C22_Witness ==
    /\ bpc = "send"
    /\ WS_CLIENTS # {}
    /\ exchange # NoExchange

CycleLeft == 2 * Len(snapshot) + Len(to_delete)

\* C24: a reaper cycle never waits for a process to exit. Each step of the
\* cycle shortens what is left of it, which starts at no more than two steps
\* per job; a polled job whose process has exited is marked for removal
\* whatever the other jobs do; when the cycle releases the lock no job that
\* was polled as exited is left, also when another job is still running; and
\* with the reaper scheduled, a cycle that has begun always comes to release
\* the lock, without any process having to exit.
C24_ReaperNeverWaits ==
    /\ [](CycleLeft <= 2 * MaxPid)
    /\ [][/\ (rpc = "cycle" /\ <<JOBS, snapshot, to_delete, rpc>>'
                                  # <<JOBS, snapshot, to_delete, rpc>>)
               => \/ CycleLeft' < CycleLeft
                  \/ rpc' = "sleep" /\ CycleLeft = 0
          /\ (rpc = "cycle" /\ snapshot' # snapshot
                /\ os[Head(snapshot)] = "zombie")
               => to_delete' = Append(to_delete, Head(snapshot))
          /\ (rpc = "cycle" /\ rpc' = "sleep")
               => \A i \in DOMAIN JOBS' : JOBS'[i].returncode = None
       ]_vars
    /\ (rpc = "cycle") ~> (rpc = "sleep")

\* The reaper has polled a job that is still running and then one that has
\* exited, which it is about to remove in the same cycle.
C24_Witness ==
    /\ rpc = "cycle"
    /\ snapshot = << >>
    /\ Len(JOBS) = 2
    /\ os[JOBS[1].pid] = "running"
    /\ JOBS[1].returncode = None
    /\ to_delete = <<JOBS[2].pid>>

\* ------------------------------------------------------------------ C25
\* C25: a connection to which a send has failed is removed from the Client
\* Set before another send to it is attempted: whenever the broadcaster
\* begins a send, the connection it sends to is not one whose send has failed
\* in this sweep and that is still waiting to be removed.
C25_FailedSendRemovedFirst ==
    [][((BcastCycle \/ BcastSendDone) /\ bpc' = "send")
          => cur' \notin disconnected'
      ]_vars

\* ------------------------------------------------------------------ C26
\* C26: a broadcaster cycle that finds the Client Set non-empty takes one
\* sample, takes no other sample until the sweep is over, and sends that
\* sample to each connection once: the sweep is not cut short by an
\* exception, which would leave connections unsent, and a send is never
\* followed by another send to the same connection in the same sweep.
C26_OneSampleOncePerClient ==
    [][/\ (BcastCycle /\ WS_CLIENTS # {}) => cycle'.read
       /\ bpc = "send" => cycle' = cycle
       /\ bpc = "send" => bpc' # "crashed"
       /\ (BcastSendDone /\ bpc' = "send") => cur' # cur
      ]_vars

\* ------------------------------------------------------------------ C27
\* C27: no handler holds the registry lock across a write to its client's
\* socket, so a client that is slow to take a STATUS reply delays neither the
\* reaper nor the other connections: a handler that is about to write holds
\* no lock, and whenever a reply is written its writer does not hold the lock.
C27_NoWriteUnderLock ==
    /\ [](\A c \in Conns : pc[c] = "status" => JOBS_LOCK # ByHandler(c))
    /\ [][wire'.to \in Conns => JOBS_LOCK # ByHandler(wire'.to)]_vars

\* ------------------------------------------------------------------ C28
\* The positions of a handler between reading a command and writing its
\* response.
Preparing == {"status", "run_register", "run_reply"}

\* C28: on a connection every non-empty line gets one response, written
\* before the next line is read. The step that reads a non-empty line writes
\* the response, or leaves the handler preparing it, or finds the client gone
\* when it writes; a handler that prepares a response reads no line and goes
\* back to reading only by writing that response; a response is written only
\* for the line just read or the one in preparation; and a line that is empty
\* or blank is answered nothing and changes nothing.
C28_OneResponsePerLine ==
    [][\A c \in Conns :
          /\ (rx'.c = c /\ Strip(rx'.raw) # << >>)
                => \/ wire'.to = c /\ pc'[c] \in {"read", "closed"}
                   \/ wire' = NoReply /\ pc'[c] \in Preparing
                   \/ wire' = NoReply /\ pc'[c] = "closed"
          /\ pc[c] # "read" => rx'.c # c
          /\ (pc[c] \in Preparing /\ pc'[c] = "read") => wire'.to = c
          /\ wire'.to = c => (rx'.c = c \/ pc[c] \in Preparing)
          /\ (rx'.c = c /\ Strip(rx'.raw) = << >>)
                => /\ wire' = NoReply
                   /\ UNCHANGED <<JOBS, JOBS_LOCK, os, pc, proc>>
      ]_vars

\* ------------------------------------------------------------------ C29
\* C29: the keyword of a TCP command is matched in any letter case: a line
\* that is PING, QUIT, EXIT or STATUS in some casing is answered PONG, is
\* answered BYE and ends the connection, or enters the STATUS listing, and a
\* line that begins with RUN and a space in some casing is handled as a RUN
\* command, never answered "ERROR: unknown command".
C29_KeywordsAnyCase ==
    [][\A c \in Conns :
          rx'.c = c =>
             LET line == Strip(rx'.raw)
             IN  /\ Upper(line) = L_PING => Answered(c, "PONG")
                 /\ Upper(line) \in {L_QUIT, L_EXIT}
                       => /\ wire' \in {Reply(c, "BYE", 0, << >>), NoReply}
                          /\ pc'[c] = "closed"
                 /\ Upper(line) = L_STATUS => pc'[c] = "status"
                 /\ StartsWith(Upper(line), L_RUN_sp)
                       => wire'.text # "ERROR: unknown command"
      ]_vars

\* ------------------------------------------------------------------ C30
\* C30: in every broadcast record that has a source member, the member
\* tells where the value came from: it is "vna" exactly when the value was
\* read from the instrument and "simulated" when the value was generated,
\* also in a cycle whose instrument read failed and fell back to a generated
\* value.
C30_SourceTellsOrigin ==
    (broadcast # NoData /\ broadcast.source # "absent")
       => /\ broadcast.source = "vna" <=> broadcast.rsl = "instrument"
          /\ broadcast.rsl = "generated" => broadcast.source = "simulated"

====
